---------------------------- MODULE Spec2Model ----------------------------
(***************************************************************************)
(* FS26-DAQ: dual-core GPS + LoRa telemetry beacon.                        *)
(*                                                                         *)
(* Core 0 reassembles NMEA lines, verifies and decodes them into gps_data  *)
(* (src/gps.c); core 1 snapshots gps_data and sends it with lora_send      *)
(* (src/FS26-DAQ.c, src/lr1121_tx.c).                                      *)
(*                                                                         *)
(* Representation.  A character is its ASCII code, a C string the sequence *)
(* of its characters (without the terminating NUL).  A float is a          *)
(* fixed-point integer: atof yields thousandths, coordinates are in        *)
(* millionths of a degree, speed in thousandths of a km/h.  Conversions    *)
(* truncate toward zero.                                                   *)
(***************************************************************************)
EXTENDS Integers, Sequences, FiniteSets, TLC

(***************************************************************************)
(* Program constants                                                       *)
(***************************************************************************)
\* gps.h:25  MAX_HDOP_THRESHOLD 3.0f, in thousandths
MAX_HDOP_THRESHOLD == 3000
\* gps.h:26  MIN_SPEED_THRESHOLD 3.0f km/h, in thousandths
MIN_SPEED_THRESHOLD == 3000
\* gps.h:29
NMEA_BUFFER_SIZE == 256
\* FS26-DAQ.c:51  packet.magic = 0x46533236
MAGIC == 1179857462
\* lr1121_tx.c:150  uint32_t timeout_ms = 2000
TIMEOUT_MS == 2000
\* lr1121_config.h (not part of the sources at hand): the fixed payload
\* length.  The telemetry packet of FS26-DAQ.c is 24 bytes.
PAYLOAD_LENGTH == 24

(***************************************************************************)
(* Bounds of the model                                                     *)
(***************************************************************************)
\* total_readings is capped: no velocity sentence is fed beyond this count
MaxReadings == 4
\* lora_send is not called once tx_count has reached this value
MaxTx == 2
\* gps_process is not called more often than this
MaxBursts == 5
\* core1_main does not call lora_send more often than this
MaxCycles == 2
\* the calls of lora_send that are followed to their return
MaxLiveTx == 1

(***************************************************************************)
(* Characters and C library functions                                      *)
(***************************************************************************)
IsDigit(c) == c >= 48 /\ c <= 57
IsSpace(c) == c = 32 \/ (c >= 9 /\ c <= 13)

\* C integer division truncates toward zero
TruncDiv(a, b) == IF a >= 0 THEN a \div b ELSE -((-a) \div b)

\* A uint32_t clock value is kept as its two 16-bit halves, hi * 65536 + lo
\* (the model checker's integers are narrower than 2^32 allows).
U32(h, l) == [hi |-> h, lo |-> l]
\* a + d and a - b in uint32_t arithmetic, for 0 <= d < 65536
Add32(a, d) ==
  U32((a.hi + ((a.lo + d) \div 65536)) % 65536, (a.lo + d) % 65536)
Sub32(a, b) ==
  U32((a.hi - b.hi - (IF a.lo < b.lo THEN 1 ELSE 0)) % 65536,
      (a.lo - b.lo) % 65536)
\* a > n and a >= n for 0 <= n < 65536
Gt32(a, n) == a.hi > 0 \/ a.lo > n
Ge32(a, n) == a.hi > 0 \/ a.lo >= n

RECURSIVE Xor(_, _)
Xor(a, b) ==
  IF a = 0 /\ b = 0 THEN 0
  ELSE (((a % 2) + (b % 2)) % 2) + (2 * Xor(a \div 2, b \div 2))

\* strncpy(dst, src, n) into a zero-initialised buffer of n+1 bytes
strncpy(src, n) == SubSeq(src, 1, IF Len(src) < n THEN Len(src) ELSE n)

RECURSIVE SkipSpace(_)
SkipSpace(s) ==
  IF s # <<>> /\ IsSpace(Head(s)) THEN SkipSpace(Tail(s)) ELSE s

RECURSIVE SpanDigits(_)
SpanDigits(s) ==
  IF s = <<>> \/ ~IsDigit(Head(s)) THEN 0 ELSE 1 + SpanDigits(Tail(s))

RECURSIVE DecValue(_)
DecValue(s) ==
  IF s = <<>> THEN 0
  ELSE (DecValue(SubSeq(s, 1, Len(s) - 1)) * 10) + (s[Len(s)] - 48)

HasSign(s) == s # <<>> /\ (s[1] = 43 \/ s[1] = 45)
IsNeg(s) == s # <<>> /\ s[1] = 45

\* atoi: optional blanks, optional sign, leading digits
atoi(str) ==
  LET t == SkipSpace(str)
      u == IF HasSign(t) THEN Tail(t) ELSE t
      v == DecValue(SubSeq(u, 1, SpanDigits(u)))
  IN IF IsNeg(t) THEN -v ELSE v

\* atof, in thousandths: optional blanks, sign, digits, '.', digits; the
\* digits after the third decimal are dropped
atof(str) ==
  LET t == SkipSpace(str)
      u == IF HasSign(t) THEN Tail(t) ELSE t
      ni == SpanDigits(u)
      rest == SubSeq(u, ni + 1, Len(u))
      fr == IF rest # <<>> /\ rest[1] = 46 THEN Tail(rest) ELSE <<>>
      fd == SubSeq(fr, 1, SpanDigits(fr)) \o <<48, 48, 48>>
      v == (DecValue(SubSeq(u, 1, ni)) * 1000) + DecValue(SubSeq(fd, 1, 3))
  IN IF IsNeg(t) THEN -v ELSE v

HexVal(c) ==
  IF IsDigit(c) THEN c - 48
  ELSE IF c >= 65 /\ c <= 70 THEN c - 55
  ELSE IF c >= 97 /\ c <= 102 THEN c - 87
  ELSE -1

\* the value of the leading hex digits of s, saturating at LONG_MAX (32 bit)
RECURSIVE HexAcc(_, _)
HexAcc(s, acc) ==
  IF s = <<>> \/ HexVal(Head(s)) < 0 THEN acc
  ELSE LET n == (acc * 16) + HexVal(Head(s))
       IN HexAcc(Tail(s), IF n > 2147483647 THEN 2147483647 ELSE n)

\* strtol(str, NULL, 16): optional blanks, sign, "0x", hex digits
strtol16(str) ==
  LET t == SkipSpace(str)
      u == IF HasSign(t) THEN Tail(t) ELSE t
      pfx == Len(u) >= 3 /\ u[1] = 48 /\ (u[2] = 120 \/ u[2] = 88)
             /\ HexVal(u[3]) >= 0
      w == IF pfx THEN SubSeq(u, 3, Len(u)) ELSE u
      v == HexAcc(w, 0)
  IN IF IsNeg(t) THEN -v ELSE v

\* strncmp(s, prefix, Len(prefix)) == 0
HasPrefix(s, p) == Len(s) >= Len(p) /\ SubSeq(s, 1, Len(p)) = p

\* strchr / strrchr: index of the first / last c in s, 0 if none
Occurrences(s, c) == {i \in 1..Len(s) : s[i] = c}
strchr(s, c) ==
  LET I == Occurrences(s, c)
  IN IF I = {} THEN 0 ELSE CHOOSE i \in I : \A j \in I : i <= j
strrchr(s, c) ==
  LET I == Occurrences(s, c)
  IN IF I = {} THEN 0 ELSE CHOOSE i \in I : \A j \in I : i >= j

(***************************************************************************)
(* gps.c: tokenizer, coordinate conversion, checksum                       *)
(***************************************************************************)
\* the tokens successive nmea_token calls return until it returns NULL
RECURSIVE nmea_token(_)
nmea_token(s) ==
  LET i == strchr(s, 44)
  IN IF i = 0 THEN <<s>>
     ELSE <<SubSeq(s, 1, i - 1)>> \o nmea_token(SubSeq(s, i + 1, Len(s)))

\* millionths of a degree
nmea_to_decimal(nmea_coord, direction) ==
  IF nmea_coord = <<>> THEN 0
  ELSE LET coord == atof(nmea_coord)
           degrees == TruncDiv(coord, 100000)
           minutes == coord - (degrees * 100000)
           decimal == (degrees * 1000000) + TruncDiv(minutes * 1000, 60)
       IN IF direction = 83 \/ direction = 87 THEN -decimal ELSE decimal

\* checksum ^= *p over the bytes of s (XOR is associative: by halves)
RECURSIVE XorAll(_)
XorAll(s) ==
  IF s = <<>> THEN 0
  ELSE IF Len(s) = 1 THEN s[1]
  ELSE LET h == Len(s) \div 2
       IN Xor(XorAll(SubSeq(s, 1, h)), XorAll(SubSeq(s, h + 1, Len(s))))

verify_nmea_checksum(sentence) ==
  IF sentence = <<>> \/ sentence[1] # 36 THEN FALSE
  ELSE LET asterisk == strrchr(sentence, 42)
       IN IF asterisk = 0 THEN FALSE
          ELSE LET checksum == XorAll(SubSeq(sentence, 2, asterisk - 1))
                   provided_checksum ==
                     strtol16(SubSeq(sentence, asterisk + 1, Len(sentence))) % 256
               IN checksum = provided_checksum


(***************************************************************************)
(* gps.h: gps_data_t, zero-initialised (gps.c:10)                          *)
(***************************************************************************)
gps_data_init ==
  [fix_valid |-> FALSE, raw_latitude |-> 0, raw_longitude |-> 0,
   altitude |-> 0, speed_kph |-> 0, course |-> 0, hdop |-> 0,
   satellites |-> 0, display_latitude |-> 0, display_longitude |-> 0,
   is_moving |-> FALSE]

\* the members of gps_data_t in declaration order
gps_fields ==
  <<"fix_valid", "raw_latitude", "raw_longitude", "altitude", "speed_kph",
    "course", "hdop", "satellites", "display_latitude", "display_longitude",
    "is_moving">>

(***************************************************************************)
(* The steps of core 0.  A handler is the sequence of the steps it takes:  *)
(* a write of one member of gps_data; taking and releasing gps_spin_lock;  *)
(* total_readings++; a safe_printf.  Only core 0 writes gps_data, so the   *)
(* steps a line causes are a function of gps_data and the line.            *)
(***************************************************************************)
W(f, v) == [op |-> "write", field |-> f, val |-> v]
Lock == [op |-> "lock"]
Unlock == [op |-> "unlock"]
Count == [op |-> "count"]
Printf == [op |-> "print"]

\* the effect of one step on gps_data
Step(d, o) == IF o.op = "write" THEN [d EXCEPT ![o.field] = o.val] ELSE d

\* the value member f has after the steps ops, begun with gps_data = d: that
\* of the last write to f, or d's
LastWrite(d, ops, f) ==
  LET ws == {i \in 1..Len(ops) : ops[i].op = "write" /\ ops[i].field = f}
  IN IF ws = {} THEN d[f]
     ELSE ops[CHOOSE i \in ws : \A j \in ws : j <= i].val

\* gps_data after the steps ops, begun with gps_data = d
Exec(d, ops) == [f \in DOMAIN d |-> LastWrite(d, ops, f)]

\* how often the steps ops increment total_readings
Counts(ops) == Cardinality({i \in 1..Len(ops) : ops[i].op = "count"})

\* the token the decoder's loop sees with its counter at `field`
\* (<<>> when the line ends before it: the local buffer stays zeroed)
HasField(toks, field, limit) == field < limit /\ field + 1 <= Len(toks)
Field(toks, field, limit) ==
  IF HasField(toks, field, limit) THEN toks[field + 1] ELSE <<>>
\* token[0]: 0 (the NUL) for an empty token
Char0(tok) == IF tok = <<>> THEN 0 ELSE tok[1]

\* gga_valid without its satellite test
gga_valid_lat_only(lat_str, sats) == Len(lat_str) > 0

\* parse_gpgga, lines 74-80: the values computed locally
gga_valid(lat_str, sats) == Len(lat_str) > 0 /\ sats > 0

gga_locals(sentence) ==
  LET toks == nmea_token(sentence)
      lat_str == strncpy(Field(toks, 2, 15), 15)
      lat_dir == IF HasField(toks, 3, 15) THEN Char0(toks[4]) ELSE 0
      lon_str == strncpy(Field(toks, 4, 15), 15)
      lon_dir == IF HasField(toks, 5, 15) THEN Char0(toks[6]) ELSE 0
      sat_str == strncpy(Field(toks, 7, 15), 7)
      alt_str == strncpy(Field(toks, 9, 15), 15)
      sats == IF Len(sat_str) > 0 THEN atoi(sat_str) ELSE 0
  IN [sats |-> sats,
      lat |-> nmea_to_decimal(lat_str, lat_dir),
      lon |-> nmea_to_decimal(lon_str, lon_dir),
      alt |-> atof(alt_str),
      valid |-> gga_valid(lat_str, sats)]

\* parse_gpgga, lines 61-72: the one member the token loop writes itself
gga_scan(sentence) ==
  LET toks == nmea_token(sentence)
  IN IF HasField(toks, 8, 15) THEN <<W("hdop", atof(toks[9]))>> ELSE <<>>

\* a commit that stores the position and altitude of an invalid fix too
gga_commit_position_always(l) ==
  <<Lock, W("satellites", l.sats), W("fix_valid", l.valid),
    W("raw_latitude", l.lat), W("raw_longitude", l.lon),
    W("altitude", l.alt), Unlock>>

\* parse_gpgga, lines 82-93: the guarded commit
gga_commit(l) ==
  <<Lock, W("satellites", l.sats)>>
  \o (IF l.valid
      THEN <<W("fix_valid", TRUE), W("raw_latitude", l.lat),
             W("raw_longitude", l.lon), W("altitude", l.alt)>>
      ELSE <<W("fix_valid", FALSE)>>)
  \o <<Unlock>>

parse_gpgga(sentence) == gga_scan(sentence) \o gga_commit(gga_locals(sentence))

\* a velocity decoder that uses speed and course whatever the status is
rmc_locals_any_status(sentence) ==
  LET toks == nmea_token(sentence)
      speed_str == strncpy(Field(toks, 7, 12), 15)
      course_str == strncpy(Field(toks, 8, 12), 15)
  IN [speed |-> IF Len(speed_str) > 0
                THEN TruncDiv(atof(speed_str) * 1852, 1000) ELSE 0,
      crs |-> IF Len(course_str) > 0 THEN atof(course_str) ELSE 0]

\* parse_gprmc, lines 105-120: speed in thousandths of a km/h
rmc_locals(sentence) ==
  LET toks == nmea_token(sentence)
      status == IF HasField(toks, 2, 12) THEN Char0(toks[3]) ELSE 86
      speed_str == strncpy(Field(toks, 7, 12), 15)
      course_str == strncpy(Field(toks, 8, 12), 15)
      active == status = 65
  IN [speed |-> IF active /\ Len(speed_str) > 0
                THEN TruncDiv(atof(speed_str) * 1852, 1000) ELSE 0,
      crs |-> IF active /\ Len(course_str) > 0 THEN atof(course_str) ELSE 0]

parse_gprmc(sentence) ==
  LET l == rmc_locals(sentence)
  IN <<Lock, W("speed_kph", l.speed), W("course", l.crs), Unlock>>

\* an accuracy gate that lets every fix through
hdop_gate_open(d) == FALSE

\* a filter step that always follows the raw position
anti_drift_follow(d) ==
  <<W("is_moving", d.speed_kph >= MIN_SPEED_THRESHOLD),
    W("display_latitude", d.raw_latitude),
    W("display_longitude", d.raw_longitude)>>

\* apply_filtering_and_print, entered with gps_data = d
hdop_gate(d) == d.hdop > MAX_HDOP_THRESHOLD
display_unset(d) == d.display_latitude = 0

anti_drift(d) ==
  IF d.speed_kph >= MIN_SPEED_THRESHOLD
  THEN <<W("is_moving", TRUE), W("display_latitude", d.raw_latitude),
         W("display_longitude", d.raw_longitude)>>
  ELSE <<W("is_moving", FALSE)>>
       \o (IF display_unset(d)
           THEN <<W("display_latitude", d.raw_latitude),
                  W("display_longitude", d.raw_longitude)>>
           ELSE <<>>)

\* a filter that prints before it releases the lock
apply_filtering_print_locked(d) ==
  <<Count>>
  \o (IF ~d.fix_valid THEN <<Printf>>
      ELSE IF hdop_gate(d) THEN <<>>
      ELSE <<Lock>> \o anti_drift(d) \o <<Printf, Unlock>>)

\* apply_filtering_and_print, lines 131-174
apply_filtering_and_print(d) ==
  <<Count>>
  \o (IF ~d.fix_valid THEN <<Printf>>
      ELSE IF hdop_gate(d) THEN <<>>
      ELSE <<Lock>> \o anti_drift(d) \o <<Unlock, Printf>>)

\* "$GPGGA" / "$GNGGA" and "$GPRMC" / "$GNRMC"
is_gga(line) ==
  HasPrefix(line, <<36, 71, 80, 71, 71, 65>>)
  \/ HasPrefix(line, <<36, 71, 78, 71, 71, 65>>)
is_rmc(line) ==
  HasPrefix(line, <<36, 71, 80, 82, 77, 67>>)
  \/ HasPrefix(line, <<36, 71, 78, 82, 77, 67>>)

\* process_gps_data, lines 181-186: the decoder the line is handed to, and
\* the steps of that decoder
Decoder(line) ==
  IF ~verify_nmea_checksum(line) THEN "none"
  ELSE IF is_gga(line) THEN "gga"
  ELSE IF is_rmc(line) THEN "rmc"
  ELSE "none"

decode(line) ==
  IF Decoder(line) = "gga" THEN parse_gpgga(line)
  ELSE IF Decoder(line) = "rmc" THEN parse_gprmc(line)
  ELSE <<>>

(***************************************************************************)
(* Input lines.  Each comes with what it was built from, so that a claim   *)
(* can speak of "the latitude field of the sentence" without the decoder.  *)
(***************************************************************************)
HexDigit(v) == IF v < 10 THEN 48 + v ELSE 55 + v
Hex2(v) == <<HexDigit(v \div 16), HexDigit(v % 16)>>

RECURSIVE Join(_)
Join(fields) ==
  IF Len(fields) = 1 THEN fields[1]
  ELSE fields[1] \o <<44>> \o Join(Tail(fields))

\* "$" body "*" hh, hh the XOR of the body in two upper-case hex digits
Sentence(body) == <<36>> \o body \o <<42>> \o Hex2(XorAll(body))

tGPGGA == <<71, 80, 71, 71, 65>>
tGNGGA == <<71, 78, 71, 71, 65>>
tGPRMC == <<71, 80, 82, 77, 67>>
tGNRMC == <<71, 78, 82, 77, 67>>
tGPGSV == <<71, 80, 71, 83, 86>>

\* "4807.038" "01131.000" "4807.100" "01131.500" "0000.000" "01132.000"
c4807038 == <<52, 56, 48, 55, 46, 48, 51, 56>>
c01131000 == <<48, 49, 49, 51, 49, 46, 48, 48, 48>>
c4807100 == <<52, 56, 48, 55, 46, 49, 48, 48>>
c01131500 == <<48, 49, 49, 51, 49, 46, 53, 48, 48>>
c0000000 == <<48, 48, 48, 48, 46, 48, 48, 48>>
c01132000 == <<48, 49, 49, 51, 50, 46, 48, 48, 48>>
\* "0.9" "5.0" "545.4" "08" "05" "00" "000.5" "022.4" "084.4"
c09 == <<48, 46, 57>>
c50 == <<53, 46, 48>>
c5454 == <<53, 52, 53, 46, 52>>
c08 == <<48, 56>>
c05 == <<48, 53>>
c00 == <<48, 48>>
c0005 == <<48, 48, 48, 46, 53>>
c0224 == <<48, 50, 50, 46, 52>>
c0844 == <<48, 56, 52, 46, 52>>

\* tag,time,lat,N/S,lon,E/W,quality,sats,hdop,alt,M
GgaBody(tag, lat, ns, lon, ew, sats, hdop, alt) ==
  Join(<<tag, <<49>>, lat, ns, lon, ew, <<49>>, sats, hdop, alt, <<77>>>>)

\* tag,time,status,lat,N/S,lon,E/W,knots,course,date
RmcBody(tag, status, knots, course) ==
  Join(<<tag, <<49>>, status, c4807038, <<78>>, c01131000, <<69>>,
         knots, course, <<49>>>>)

Gga(tag, lat, ns, lon, ew, sats, nsats, hdop) ==
  [text |-> Sentence(GgaBody(tag, lat, ns, lon, ew, sats, hdop, c5454)),
   kind |-> "gga", form |-> "ok", has_lat |-> lat # <<>>, sats |-> nsats,
   status |-> 0, knots |-> 0]

\* status: the character of the status field, 0 for an empty field;
\* nknots: the speed field in thousandths of a knot
Rmc(tag, status, knots, nknots, course) ==
  [text |-> Sentence(RmcBody(tag, status, knots, course)),
   kind |-> "rmc", form |-> "ok", has_lat |-> FALSE, sats |-> 0,
   status |-> IF status = <<>> THEN 0 ELSE status[1], knots |-> nknots]

\* malformed variants of a well-formed line
NoDollar(e) == [e EXCEPT !.text = Tail(e.text), !.form = "no_dollar"]
NoStar(e) ==
  [e EXCEPT !.text = SubSeq(e.text, 1, Len(e.text) - 3), !.form = "no_star"]
\* the last checksum digit replaced by another hex digit
BadSum(e) ==
  [e EXCEPT !.text = SubSeq(e.text, 1, Len(e.text) - 1)
                     \o <<IF e.text[Len(e.text)] = 48 THEN 49 ELSE 48>>,
            !.form = "bad_sum"]
\* a hex digit '1' in front of the right checksum: "*hh" becomes "*1hh",
\* which is the number 256 + hh and not the XOR of the body
LongSum(e) ==
  [e EXCEPT !.text = SubSeq(e.text, 1, Len(e.text) - 2) \o <<49>>
                     \o SubSeq(e.text, Len(e.text) - 1, Len(e.text)),
            !.form = "long_sum"]

GgaA == Gga(tGPGGA, c4807038, <<78>>, c01131000, <<69>>, c08, 8, c09)
GgaB == Gga(tGNGGA, c4807100, <<78>>, c01131500, <<69>>, c05, 5, c09)
GgaBadHdop == Gga(tGPGGA, c4807100, <<78>>, c01131500, <<69>>, c05, 5, c50)
GgaEq1 == Gga(tGPGGA, c0000000, <<78>>, c01131000, <<69>>, c08, 8, c09)
GgaEq2 == Gga(tGPGGA, c0000000, <<78>>, c01132000, <<69>>, c08, 8, c09)
GgaNoFix == Gga(tGPGGA, <<>>, <<>>, <<>>, <<>>, c00, 0, <<>>)
GgaNoSats == Gga(tGPGGA, c4807038, <<78>>, c01131000, <<69>>, c00, 0, c09)
GgaNoLat == Gga(tGPGGA, <<>>, <<>>, <<>>, <<>>, c05, 5, c09)
RmcSlow == Rmc(tGPRMC, <<65>>, c0005, 500, c0844)
RmcFast == Rmc(tGNRMC, <<65>>, c0224, 22400, c0844)
RmcVoid == Rmc(tGPRMC, <<86>>, c0224, 22400, c0844)
\* the status field is empty
RmcNoStatus == Rmc(tGNRMC, <<>>, c0224, 22400, c0844)
\* the sentence ends before the status field
RmcShort ==
  [text |-> Sentence(Join(<<tGPRMC, <<49>>>>)),
   kind |-> "rmc", form |-> "ok", has_lat |-> FALSE, sats |-> 0,
   status |-> 0, knots |-> 0]
Gsv ==
  [text |-> Sentence(Join(<<tGPGSV, <<49>>, <<49>>, c08>>)),
   kind |-> "other", form |-> "ok", has_lat |-> FALSE, sats |-> 0,
   status |-> 0, knots |-> 0]

\* the lines fed to core 0 while core 1 takes snapshots
SyncLines == {GgaA, GgaBadHdop, GgaNoFix, GgaNoSats, RmcFast, BadSum(GgaB)}

\* the lines fed to the sequential model of core 0
Lines ==
  {GgaA, GgaB, GgaBadHdop, GgaEq1, GgaEq2, GgaNoFix, GgaNoSats, GgaNoLat,
   RmcSlow, RmcFast, RmcVoid, RmcNoStatus, RmcShort, Gsv,
   NoDollar(GgaA), NoStar(RmcFast), BadSum(RmcFast), BadSum(GgaB),
   LongSum(RmcFast), LongSum(GgaB)}

\* decode, tabulated once for the lines of the model
Decoded == [t \in {e.text : e \in Lines} |-> [decoder |-> Decoder(t), ops |-> decode(t)]]

\* process_gps_data, lines 180-190: the steps one non-empty line causes
\* when gps_data = d; dec is the line's entry of Decoded
handle_line(d, dec) ==
  IF dec.decoder = "rmc"
  THEN dec.ops \o apply_filtering_and_print(Exec(d, dec.ops))
  ELSE dec.ops

(***************************************************************************)
(* Inputs of lora_send and of its clock                                    *)
(***************************************************************************)
\* the arguments `length` of the modelled calls (uint8_t): the 24-byte
\* packet of core1_main, one byte too many, the largest value
SendLens == {n \in {24, PAYLOAD_LENGTH + 1, 255} : n <= 255}
\* what the clock reads when a call begins: early, and shortly before the
\* 32-bit millisecond count wraps
CallTimes == {U32(0, 1000), U32(65535, 65536 - 1000)}
\* how long sleep_ms(1) takes, in ms
SleepMs == {1, 700}

(***************************************************************************)
(* State                                                                   *)
(***************************************************************************)
VARIABLES
  gps_data,        \* gps.c:10
  total_readings,  \* gps.c:9
  lock,            \* gps.c:13 gps_spin_lock: "free" or the core holding it
  ops0,            \* core 0: the steps left of the line it is handling
  pc1,             \* core 1 in gps_get_data_safe: 0 outside, k: the k-th
                   \* member is copied next, Len(gps_fields)+1: unlock next
  snap,            \* core 1: the gps_data_t `gps` of core1_main
  last_in,         \* history: kind and form of the line handled last
  gga_seen,        \* history: the quality sentence decoded last
  commit,          \* history: gps_data as the last quality decode left it
  snap_ref,        \* history: gga_seen and commit when the copy began
  first_fix,       \* history: the position of the first fix that was filtered
  slow_since,      \* history: no later filtered fix was at >= 3 km/h
  tx_pc,           \* core 1: where it is in lora_send ("idle": outside)
  tx_len,          \* lora_send: the argument `length`
  tx_result,       \* lora_send: the value returned last
  tx_done_flag,    \* lr1121_tx.c:26
  tx_count,        \* lr1121_tx.c:27 (far below 2^32 in this model)
  now,             \* to_ms_since_boot(get_absolute_time()), 32 bit
  start,           \* lora_send: the local `start`
  radio,           \* the LR1121: on_air, irq_tx_done (status bit), and
                   \* dio_edge (a completion edge the ISR has yet to serve)
  cmds,            \* history: the last two commands sent to the radio
  nmea_buffer,     \* gps.c:7-8: the first buffer_index bytes of nmea_buffer
  rx,              \* history: the bytes gps_process was called with last,
                   \* how many calls there were, and where the stream is
                   \* relative to a buffer overflow
  pub_pc,          \* core 1: where it is in the loop of core1_main
  packet,          \* core1_main: the bytes of `packet`, <<>> before the
                   \* first one is built
  pub,             \* history: how often core1_main called lora_send
  call             \* history of the current call: a command issued, set_tx
                   \* accepted, a completion signalled during the call, one
                   \* signalled after set_tx; and the returns of true so far

gps_vars == <<gps_data, total_readings, last_in, gga_seen, first_fix, slow_since>>
sync_vars == <<lock, ops0, pc1, snap, commit, snap_ref>>

tx_vars ==
  <<tx_pc, tx_len, tx_result, tx_done_flag, tx_count, now, start, radio,
    cmds, call>>

rx_vars == <<nmea_buffer, rx>>

pub_vars == <<pub_pc, packet, pub>>

vars == <<gps_vars, sync_vars, tx_vars, rx_vars, pub_vars>>

InitGps ==
  /\ gps_data = gps_data_init
  /\ total_readings = 0
  /\ last_in = [kind |-> "none", form |-> "none", decoded |-> "none",
                has_lat |-> FALSE, sats |-> 0, status |-> 0, knots |-> 0]
  /\ gga_seen = [any |-> FALSE, has_lat |-> FALSE, sats |-> 0]
  /\ first_fix = [set |-> FALSE, lat |-> 0, lon |-> 0]
  /\ slow_since = TRUE

InitSync ==
  /\ lock = "free"
  /\ ops0 = <<>>
  /\ pc1 = 0
  /\ snap = gps_data_init
  /\ commit = gps_data_init
  /\ snap_ref = [taken |-> FALSE, seen |-> gga_seen, commit |-> gps_data_init]

\* after lora_tx_init: the last command was clear_irq_status (line 64)
InitRadio ==
  /\ tx_pc = "idle"
  /\ tx_len = 0
  /\ tx_result = FALSE
  /\ tx_done_flag = FALSE
  /\ now = U32(0, 1000)
  /\ start = U32(0, 0)
  /\ radio = [on_air |-> FALSE, irq_tx_done |-> FALSE, dio_edge |-> FALSE]
  /\ cmds = <<"set_dio_irq_params", "clear_irq_status">>
  /\ call = [cmd_any |-> FALSE, started |-> FALSE, signalled |-> FALSE,
             after_start |-> FALSE, ok_count |-> 0, err |-> "none",
             set_tx |-> 0, isr |-> FALSE, seen_bit |-> FALSE,
             done_in_time |-> FALSE, isr_in_time |-> FALSE]

InitTx ==
  /\ tx_count = 0
  /\ InitRadio

InitPub ==
  /\ pub_pc = "snap"
  /\ packet = <<>>
  /\ pub = [cycles |-> 0, lines |-> 0]

InitRx ==
  /\ nmea_buffer = <<>>
  /\ rx = [burst |-> <<>>, n |-> 0, phase |-> "clean", handed |-> <<>>]

Init == InitGps /\ InitSync /\ InitTx /\ InitRx /\ InitPub

\* the history variables after line e, with entry dec of Decoded, was
\* handled
SeenAfter(dec, e) ==
  IF dec.decoder = "gga"
  THEN [any |-> TRUE, has_lat |-> e.has_lat, sats |-> e.sats]
  ELSE gga_seen

LastIn(dec, e) ==
  [kind |-> e.kind, form |-> e.form, decoded |-> dec.decoder,
   has_lat |-> e.has_lat, sats |-> e.sats,
   status |-> e.status, knots |-> e.knots]

\* the filter reached its anti-drift step: entered, with gps_data = d1,
\* with a valid fix of good accuracy
Filtered(d1, dec) ==
  /\ dec.decoder = "rmc"
  /\ d1.fix_valid
  /\ d1.hdop <= MAX_HDOP_THRESHOLD

\* d1 is gps_data as the line's decoder leaves it
History(d1, dec, e) ==
  /\ last_in' = LastIn(dec, e)
  /\ gga_seen' = SeenAfter(dec, e)
  /\ first_fix' = IF Filtered(d1, dec) /\ ~first_fix.set
                  THEN [set |-> TRUE, lat |-> d1.raw_latitude,
                        lon |-> d1.raw_longitude]
                  ELSE first_fix
  /\ slow_since' = IF Filtered(d1, dec) /\ first_fix.set
                      /\ d1.speed_kph >= MIN_SPEED_THRESHOLD
                   THEN FALSE ELSE slow_since

(***************************************************************************)
(* Core 0 alone: process_gps_data handles one complete line                *)
(***************************************************************************)
FeedLine(e) ==
  \E dec \in {Decoded[e.text]} :
  \E ops \in {handle_line(gps_data, dec)} :
  \E d1 \in {Exec(gps_data, dec.ops)} :
     /\ total_readings + Counts(ops) <= MaxReadings
     /\ gps_data' = Exec(gps_data, ops)
     /\ total_readings' = total_readings + Counts(ops)
     /\ History(d1, dec, e)
     /\ UNCHANGED <<sync_vars, tx_vars, rx_vars, pub_vars>>

NextGps == \E e \in Lines : FeedLine(e)

SpecGps == Init /\ [][NextGps]_vars

(***************************************************************************)
(* Core 0 from the UART on: gps_process receives the bytes that are        *)
(* readable, buffers them and calls process_gps_data                       *)
(***************************************************************************)
IsTerminator(c) == c = 10 \/ c = 13

\* gps_process, lines 305-306, for the bytes s received one after the other
\* into the buffer buf: a byte is stored while buffer_index is below
\* NMEA_BUFFER_SIZE - 1; the byte that arrives when it is not is dropped and
\* resets buffer_index to 0
\* the bytes written behind each other without the capacity test
store_unchecked(buf, s) == buf \o s

RECURSIVE store(_, _)
store(buf, s) ==
  IF Len(buf) + Len(s) <= NMEA_BUFFER_SIZE - 1
  THEN buf \o s
  ELSE store(<<>>, SubSeq(s, NMEA_BUFFER_SIZE - Len(buf) + 1, Len(s)))

\* the index of the first byte of s that satisfies IsTerminator, 0 if none
FirstTerminator(s) ==
  LET T == {i \in 1..Len(s) : IsTerminator(s[i])}
  IN IF T = {} THEN 0 ELSE CHOOSE i \in T : \A j \in T : i <= j

\* the index of the first '\n' of s, 0 if none
FirstNewline(s) ==
  LET T == {i \in 1..Len(s) : s[i] = 10}
  IN IF T = {} THEN 0 ELSE CHOOSE i \in T : \A j \in T : i <= j

\* process_gps_data, lines 177-196: the lines it hands to the checksum test,
\* in order: the non-empty pieces of the buffer that end at a '\n' or '\r'
RECURSIVE lines_of(_)
lines_of(buf) ==
  LET i == FirstTerminator(buf)
  IN IF i = 0 THEN <<>>
     ELSE (IF i > 1 THEN <<SubSeq(buf, 1, i - 1)>> ELSE <<>>)
          \o lines_of(SubSeq(buf, i + 1, Len(buf)))

\* process_gps_data, lines 191-193: what it leaves in the buffer, the bytes
\* after the last terminator
RECURSIVE remaining(_)
remaining(buf) ==
  LET i == FirstTerminator(buf)
  IN IF i = 0 THEN buf ELSE remaining(SubSeq(buf, i + 1, Len(buf)))

\* process_gps_data, lines 180-190, for the lines ls in order, from the fix
\* state and reading counter st; st.h lists the lines handed to a decoder
RECURSIVE hand(_, _)
hand(st, ls) ==
  IF ls = <<>> THEN st
  ELSE LET line == Head(ls)
           ops == handle_line(st.d, [decoder |-> Decoder(line),
                                     ops |-> decode(line)])
       IN hand([d |-> Exec(st.d, ops), n |-> st.n + Counts(ops),
                h |-> IF Decoder(line) = "none" THEN st.h
                      ELSE Append(st.h, line)],
               Tail(ls))

\* gps_process, lines 303-308, for the bytes s: process_gps_data runs when
\* the byte received is '\n', and only then
RECURSIVE feed(_, _)
feed(st, s) ==
  LET k == FirstNewline(s)
  IN IF k = 0 THEN [st EXCEPT !.buf = store(st.buf, s)]
     ELSE LET b == store(st.buf, SubSeq(s, 1, k))
              after == hand([d |-> st.d, n |-> st.n, h |-> st.h],
                            lines_of(b))
          IN feed([buf |-> remaining(b), d |-> after.d, n |-> after.n,
                   h |-> after.h],
                  SubSeq(s, k + 1, Len(s)))

\* bytes that are no sentence and hold no terminator
Junk == [i \in 1..230 |-> 120]

\* with Junk, as many bytes as the buffer takes
Fill == [i \in 1..25 |-> 120]

\* two sentences read at once, the first ended by "\r\n" and an empty line,
\* the second by "\n"
TwoLines == GgaA.text \o <<13, 10, 10>> \o RmcSlow.text \o <<10>>

\* what one call of gps_process finds readable: a sentence without its
\* terminator, sentences ended by "\n" and by "\r\n", a lone '\r', a lone
\* '\n', junk of two lengths, and two complete lines at once
Bursts ==
  {GgaA.text, GgaB.text \o <<10>>, RmcFast.text \o <<13, 10>>,
   <<13>>, <<10>>, Junk, Fill, TwoLines}

\* where the stream is after the bytes s arrived with the buffer buf: an
\* overflow happened and no terminator was received since ("overflowed"),
\* the byte received last is the first terminator since an overflow
\* ("resynced"), or neither ("clean")
Phase(phase, buf, s) ==
  LET ovpos == NMEA_BUFFER_SIZE - Len(buf)
      first == IF FirstNewline(s) = 0 THEN Len(s) ELSE FirstNewline(s)
      ov == ovpos <= first
      T == {i \in (IF ov THEN ovpos + 1 ELSE 1)..Len(s) : IsTerminator(s[i])}
  IN IF ~(ov \/ phase = "overflowed") THEN "clean"
     ELSE IF T = {} THEN "overflowed"
     ELSE IF T = {Len(s)} THEN "resynced"
     ELSE "clean"

GpsProcess(burst) ==
  /\ rx.n < MaxBursts
  /\ \E st \in {feed([buf |-> nmea_buffer, d |-> gps_data,
                      n |-> total_readings, h |-> <<>>], burst)} :
        /\ st.n <= MaxReadings
        /\ nmea_buffer' = st.buf
        /\ gps_data' = st.d
        /\ total_readings' = st.n
        /\ rx' = [burst |-> burst, n |-> rx.n + 1,
                  phase |-> Phase(rx.phase, nmea_buffer, burst),
                  handed |-> st.h]
  /\ UNCHANGED <<last_in, gga_seen, first_fix, slow_since, sync_vars, tx_vars,
                 pub_vars>>

NextRx == \E burst \in Bursts : GpsProcess(burst)

SpecRx == Init /\ [][NextRx]_vars

(***************************************************************************)
(* Both cores: core 0 takes the steps of a line one at a time while core 1 *)
(* copies gps_data member by member in gps_get_data_safe                   *)
(***************************************************************************)
\* a lock that never makes its caller wait
spin_lock_absent(l) == TRUE

\* spin_lock_blocking returns once the lock is free, and then holds it
spin_lock_blocking(l) == l = "free"

\* process_gps_data finds a complete line in the buffer
Core0Line(e) ==
  /\ ops0 = <<>>
  /\ \E dec \in {Decoded[e.text]} :
     \E ops \in {handle_line(gps_data, dec)} :
        /\ total_readings + Counts(ops) <= MaxReadings
        /\ ops0' = ops
        /\ last_in' = LastIn(dec, e)
  /\ UNCHANGED <<tx_vars, rx_vars, gps_data, total_readings, lock, pc1, snap, commit,
                 snap_ref, gga_seen, first_fix, slow_since>>

Core0Write ==
  /\ ops0 # <<>> /\ Head(ops0).op = "write"
  /\ gps_data' = Step(gps_data, Head(ops0))
  /\ ops0' = Tail(ops0)
  /\ UNCHANGED <<tx_vars, rx_vars, total_readings, lock, pc1, snap, commit, snap_ref,
                 last_in, gga_seen, first_fix, slow_since>>

Core0Lock ==
  /\ ops0 # <<>> /\ Head(ops0).op = "lock"
  /\ spin_lock_blocking(lock)
  /\ lock' = "core0"
  /\ ops0' = Tail(ops0)
  /\ UNCHANGED <<tx_vars, rx_vars, gps_data, total_readings, pc1, snap, commit, snap_ref,
                 last_in, gga_seen, first_fix, slow_since>>

\* spin_unlock; the unlock of parse_gpgga completes a quality decode
Core0Unlock ==
  /\ ops0 # <<>> /\ Head(ops0).op = "unlock"
  /\ lock' = "free"
  /\ ops0' = Tail(ops0)
  /\ IF last_in.decoded = "gga"
     THEN /\ commit' = gps_data
          /\ gga_seen' = [any |-> TRUE, has_lat |-> last_in.has_lat,
                          sats |-> last_in.sats]
     ELSE UNCHANGED <<commit, gga_seen>>
  /\ UNCHANGED <<tx_vars, rx_vars, gps_data, total_readings, pc1, snap, snap_ref, last_in,
                 first_fix, slow_since>>

\* total_readings++ and safe_printf
Core0Other ==
  /\ ops0 # <<>> /\ Head(ops0).op \in {"count", "print"}
  /\ total_readings' = total_readings + Counts(<<Head(ops0)>>)
  /\ ops0' = Tail(ops0)
  /\ UNCHANGED <<tx_vars, rx_vars, gps_data, lock, pc1, snap, commit, snap_ref, last_in,
                 gga_seen, first_fix, slow_since>>

\* gps_get_data_safe, line 320
Core1Lock ==
  /\ pc1 = 0
  /\ spin_lock_blocking(lock)
  /\ lock' = "core1"
  /\ pc1' = 1
  /\ snap_ref' = [taken |-> TRUE, seen |-> gga_seen, commit |-> commit]
  /\ UNCHANGED <<tx_vars, rx_vars, gps_vars, ops0, snap, commit>>

\* gps_get_data_safe, line 321: *out = gps_data, one member at a time
Core1Copy ==
  /\ pc1 >= 1 /\ pc1 <= Len(gps_fields)
  /\ snap' = [snap EXCEPT ![gps_fields[pc1]] = gps_data[gps_fields[pc1]]]
  /\ pc1' = pc1 + 1
  /\ UNCHANGED <<tx_vars, rx_vars, gps_vars, lock, ops0, commit, snap_ref>>

\* gps_get_data_safe, line 322
Core1Unlock ==
  /\ pc1 = Len(gps_fields) + 1
  /\ lock' = "free"
  /\ pc1' = 0
  /\ UNCHANGED <<tx_vars, rx_vars, gps_vars, ops0, snap, commit, snap_ref>>

NextSync ==
  \/ (\E e \in SyncLines : Core0Line(e)) /\ UNCHANGED pub_vars
  \/ Core0Write /\ UNCHANGED pub_vars
  \/ Core0Lock /\ UNCHANGED pub_vars
  \/ Core0Unlock /\ UNCHANGED pub_vars
  \/ Core0Other /\ UNCHANGED pub_vars
  \/ Core1Lock /\ UNCHANGED pub_vars
  \/ Core1Copy /\ UNCHANGED pub_vars
  \/ Core1Unlock /\ UNCHANGED pub_vars

SpecSync == Init /\ [][NextSync]_vars

(***************************************************************************)
(* Core 1: lora_send (lr1121_tx.c), the radio, and its completion ISR      *)
(***************************************************************************)
\* a length test that rejects nothing
too_long_never(length) == FALSE

\* lora_send, line 78
too_long(length) == length > PAYLOAD_LENGTH
\* lora_send, line 162
timed_out(t, t0) == Gt32(Sub32(t, t0), TIMEOUT_MS)

\* the commands cs go to the radio, in order
RECURSIVE Issue(_, _)
Issue(log, cs) ==
  IF cs = <<>> THEN log ELSE Issue(<<log[2], Head(cs)>>, Tail(cs))

Cmd(cs) ==
  /\ cmds' = Issue(cmds, cs)
  /\ call' = [call EXCEPT !.cmd_any = TRUE]

\* lora_send is called; lines 78-80
SendCall(length) ==
  /\ tx_pc = "idle"
  /\ tx_count < MaxTx
  /\ tx_len' = length
  /\ call' = [call EXCEPT !.cmd_any = FALSE, !.started = FALSE,
                          !.signalled = FALSE, !.after_start = FALSE,
                          !.err = "none", !.set_tx = 0, !.isr = FALSE,
                          !.seen_bit = FALSE, !.done_in_time = FALSE,
                          !.isr_in_time = FALSE]
  /\ IF too_long(length)
     THEN tx_pc' = "ret" /\ tx_result' = FALSE
     ELSE tx_pc' = "reset" /\ UNCHANGED tx_result
  /\ UNCHANGED <<tx_done_flag, tx_count, now, start, radio, cmds>>

\* lines 82-83
SendReset ==
  /\ tx_pc = "reset"
  /\ tx_done_flag' = FALSE
  /\ tx_count' = tx_count + 1
  /\ tx_pc' = "reconf"
  /\ UNCHANGED <<tx_len, tx_result, now, start, radio, cmds, call>>

\* lines 86-87
SendClearPending ==
  /\ tx_pc = "reconf"
  /\ Cmd(<<"clear_errors", "clear_irq_status">>)
  /\ radio' = [radio EXCEPT !.irq_tx_done = FALSE]
  /\ tx_pc' = "tcxo"
  /\ UNCHANGED <<tx_len, tx_result, tx_done_flag, tx_count, now, start>>

\* lines 91-94: set_tcxo_mode, sleep_ms(5)
SendTcxo ==
  /\ tx_pc = "tcxo"
  /\ Cmd(<<"set_tcxo_mode">>)
  /\ now' = Add32(now, 5)
  /\ tx_pc' = "params"
  /\ UNCHANGED <<tx_len, tx_result, tx_done_flag, tx_count, start, radio>>

\* lines 97-122
SendParams ==
  /\ tx_pc = "params"
  /\ Cmd(<<"clear_errors", "set_pkt_type", "set_rf_freq",
           "set_lora_mod_params", "set_lora_pkt_params">>)
  /\ tx_pc' = "write"
  /\ UNCHANGED <<tx_len, tx_result, tx_done_flag, tx_count, now, start,
                 radio>>

\* a buffer write whose error is not acted on
SendWriteBuffer_unchecked(rc_ok) ==
  /\ tx_pc = "write"
  /\ cmds' = Issue(cmds, <<"write_buffer8">>)
  /\ call' = [call EXCEPT !.cmd_any = TRUE,
                          !.err = IF rc_ok THEN @ ELSE "write"]
  /\ tx_pc' = "errors" /\ UNCHANGED tx_result
  /\ UNCHANGED <<tx_len, tx_done_flag, tx_count, now, start, radio>>

\* lines 125-132: rc_ok is what lr11xx_regmem_write_buffer8 reports
SendWriteBuffer(rc_ok) ==
  /\ tx_pc = "write"
  /\ cmds' = Issue(cmds, <<"write_buffer8">>)
  /\ call' = [call EXCEPT !.cmd_any = TRUE,
                          !.err = IF rc_ok THEN @ ELSE "write"]
  /\ IF rc_ok
     THEN tx_pc' = "errors" /\ UNCHANGED tx_result
     ELSE tx_pc' = "ret" /\ tx_result' = FALSE
  /\ UNCHANGED <<tx_len, tx_done_flag, tx_count, now, start, radio>>

\* lines 135-140: sys_errors is what lr11xx_system_get_errors reports
SendGetErrors(sys_errors) ==
  /\ tx_pc = "errors"
  /\ Cmd(IF sys_errors THEN <<"get_errors", "clear_errors">>
         ELSE <<"get_errors">>)
  /\ tx_pc' = "set_tx"
  /\ UNCHANGED <<tx_len, tx_result, tx_done_flag, tx_count, now, start,
                 radio>>

\* lines 143-151: rc_ok is what lr11xx_radio_set_tx reports
SendSetTx(rc_ok) ==
  /\ tx_pc = "set_tx"
  /\ cmds' = Issue(cmds, <<"set_tx">>)
  /\ IF rc_ok
     THEN /\ radio' = [radio EXCEPT !.on_air = TRUE]
          /\ call' = [call EXCEPT !.cmd_any = TRUE, !.started = TRUE,
                                  !.set_tx = @ + 1]
          /\ start' = now
          /\ tx_pc' = "wait"
          /\ UNCHANGED tx_result
     ELSE /\ call' = [call EXCEPT !.cmd_any = TRUE, !.set_tx = @ + 1,
                                  !.err = "start"]
          /\ tx_pc' = "ret" /\ tx_result' = FALSE
          /\ UNCHANGED <<radio, start>>
  /\ UNCHANGED <<tx_len, tx_done_flag, tx_count, now>>

\* line 153: while (!tx_done_flag)
SendWait ==
  /\ tx_pc = "wait"
  /\ tx_pc' = IF tx_done_flag THEN "done" ELSE "poll"
  /\ UNCHANGED <<tx_len, tx_result, tx_done_flag, tx_count, now, start,
                 radio, cmds, call>>

\* a poll that does not act on the TX_DONE bit
SendPoll_blind ==
  /\ tx_pc = "poll"
  /\ Cmd(<<"get_irq_status">>)
  /\ tx_pc' = "timeout" /\ UNCHANGED tx_done_flag
  /\ UNCHANGED <<tx_len, tx_result, tx_count, now, start, radio>>

\* lines 154-160: the status register is read and tested
SendPoll ==
  /\ tx_pc = "poll"
  /\ cmds' = Issue(cmds, <<"get_irq_status">>)
  /\ call' = [call EXCEPT !.cmd_any = TRUE,
                          !.seen_bit = @ \/ radio.irq_tx_done]
  /\ IF radio.irq_tx_done
     THEN tx_done_flag' = TRUE /\ tx_pc' = "done"
     ELSE tx_pc' = "timeout" /\ UNCHANGED tx_done_flag
  /\ UNCHANGED <<tx_len, tx_result, tx_count, now, start, radio>>

\* lines 162-167
SendTimeout ==
  /\ tx_pc = "timeout"
  /\ IF timed_out(now, start)
     THEN /\ Cmd(<<"clear_errors", "clear_irq_status">>)
          /\ radio' = [radio EXCEPT !.irq_tx_done = FALSE]
          /\ tx_pc' = "ret" /\ tx_result' = FALSE
     ELSE /\ tx_pc' = "sleep"
          /\ UNCHANGED <<radio, cmds, call, tx_result>>
  /\ UNCHANGED <<tx_len, tx_done_flag, tx_count, now, start>>

\* a sleep during which the clock stands still
SendSleep_frozen ==
  /\ tx_pc = "sleep"
  /\ tx_pc' = "wait"
  /\ UNCHANGED <<tx_len, tx_result, tx_done_flag, tx_count, now, start,
                 radio, cmds, call>>

\* line 169: sleep_ms(1)
SendSleep ==
  /\ tx_pc = "sleep"
  /\ \E d \in SleepMs : now' = Add32(now, d)
  /\ tx_pc' = "wait"
  /\ UNCHANGED <<tx_len, tx_result, tx_done_flag, tx_count, start, radio,
                 cmds, call>>

\* lines 172-175
SendDone ==
  /\ tx_pc = "done"
  /\ cmds' = Issue(cmds, <<"clear_irq_status">>)
  /\ call' = [call EXCEPT !.cmd_any = TRUE, !.ok_count = @ + 1]
  /\ radio' = [radio EXCEPT !.irq_tx_done = FALSE]
  /\ tx_pc' = "ret" /\ tx_result' = TRUE
  /\ UNCHANGED <<tx_len, tx_done_flag, tx_count, now, start>>

\* the caller has the result and sleeps (core1_main, lines 61-69): the
\* local `start` is gone, and the clock reads a later value
SendReturn ==
  /\ tx_pc = "ret"
  /\ tx_pc' = "idle"
  /\ start' = U32(0, 0)
  /\ \E t \in CallTimes : now' = t
  /\ UNCHANGED <<tx_len, tx_result, tx_done_flag, tx_count, radio, cmds,
                 call>>

InCall == tx_pc \notin {"idle", "ret"}

\* lora_tx_init, line 60, registers isr on the core that runs lora_send:
\* the program of that core takes a step only when no interrupt is pending
Thread == ~radio.dio_edge

\* the radio ends a transmission: the TX_DONE status bit is set and the DIO
\* line rises; edge is whether the GPIO interrupt catches the edge
RadioTxDone(edge) ==
  /\ radio.on_air
  /\ radio' = [on_air |-> FALSE, irq_tx_done |-> TRUE,
               dio_edge |-> (radio.dio_edge \/ edge)]
  /\ call' = [call EXCEPT !.signalled = @ \/ InCall,
                          !.after_start = @ \/ (InCall /\ call.started),
                          !.done_in_time = @ \/ (InCall /\ call.started
                                                 /\ ~timed_out(now, start))]
  /\ UNCHANGED <<tx_pc, tx_len, tx_result, tx_done_flag, tx_count, now,
                 start, cmds>>

\* isr, lines 34-36
Isr ==
  /\ radio.dio_edge
  /\ tx_done_flag' = TRUE
  /\ radio' = [radio EXCEPT !.dio_edge = FALSE]
  /\ call' = [call EXCEPT !.signalled = @ \/ InCall,
                          !.after_start = @ \/ (InCall /\ call.started),
                          !.isr = @ \/ InCall,
                          !.isr_in_time = @ \/ (InCall /\ call.started
                                                /\ ~timed_out(now, start))]
  /\ UNCHANGED <<tx_pc, tx_len, tx_result, tx_count, now, start, cmds>>

NextTx ==
  \/ Thread /\ (\E length \in SendLens : SendCall(length)) /\ UNCHANGED <<gps_vars, sync_vars, rx_vars, pub_vars>>
  \/ Thread /\ SendReset /\ UNCHANGED <<gps_vars, sync_vars, rx_vars, pub_vars>>
  \/ Thread /\ SendClearPending /\ UNCHANGED <<gps_vars, sync_vars, rx_vars, pub_vars>>
  \/ Thread /\ SendTcxo /\ UNCHANGED <<gps_vars, sync_vars, rx_vars, pub_vars>>
  \/ Thread /\ SendParams /\ UNCHANGED <<gps_vars, sync_vars, rx_vars, pub_vars>>
  \/ Thread /\ (\E rc_ok \in BOOLEAN : SendWriteBuffer(rc_ok)) /\ UNCHANGED <<gps_vars, sync_vars, rx_vars, pub_vars>>
  \/ Thread /\ (\E sys_errors \in BOOLEAN : SendGetErrors(sys_errors)) /\ UNCHANGED <<gps_vars, sync_vars, rx_vars, pub_vars>>
  \/ Thread /\ (\E rc_ok \in BOOLEAN : SendSetTx(rc_ok)) /\ UNCHANGED <<gps_vars, sync_vars, rx_vars, pub_vars>>
  \/ Thread /\ SendWait /\ UNCHANGED <<gps_vars, sync_vars, rx_vars, pub_vars>>
  \/ Thread /\ SendPoll /\ UNCHANGED <<gps_vars, sync_vars, rx_vars, pub_vars>>
  \/ Thread /\ SendTimeout /\ UNCHANGED <<gps_vars, sync_vars, rx_vars, pub_vars>>
  \/ Thread /\ SendSleep /\ UNCHANGED <<gps_vars, sync_vars, rx_vars, pub_vars>>
  \/ Thread /\ SendDone /\ UNCHANGED <<gps_vars, sync_vars, rx_vars, pub_vars>>
  \/ Thread /\ SendReturn /\ UNCHANGED <<gps_vars, sync_vars, rx_vars, pub_vars>>
  \/ (\E edge \in BOOLEAN : RadioTxDone(edge)) /\ UNCHANGED <<gps_vars, sync_vars, rx_vars, pub_vars>>
  \/ Isr /\ UNCHANGED <<gps_vars, sync_vars, rx_vars, pub_vars>>

SpecTx == Init /\ [][NextTx]_vars

\* a step of the program of core 1 inside lora_send
ProgramStep ==
  /\ Thread
  /\ \/ SendReset
     \/ SendClearPending
     \/ SendTcxo
     \/ SendParams
     \/ \E rc_ok \in BOOLEAN : SendWriteBuffer(rc_ok)
     \/ \E sys_errors \in BOOLEAN : SendGetErrors(sys_errors)
     \/ \E rc_ok \in BOOLEAN : SendSetTx(rc_ok)
     \/ SendWait
     \/ SendPoll
     \/ SendTimeout
     \/ SendSleep
     \/ SendDone
  /\ UNCHANGED <<gps_vars, sync_vars, rx_vars, pub_vars>>

\* the same behaviours when the core keeps executing: the program inside
\* lora_send takes its next step unless an interrupt is pending, and a
\* pending interrupt is served; the radio need not ever complete
\* the steps of NextTx, with no further call once MaxLiveTx calls were made
NextTxLive ==
  /\ NextTx
  /\ (tx_pc = "idle" /\ tx_count >= MaxLiveTx) => tx_pc' = "idle"

SpecTxLive ==
  /\ Init
  /\ [][NextTxLive]_vars
  /\ WF_vars(ProgramStep)
  /\ WF_vars(Isr /\ UNCHANGED <<gps_vars, sync_vars, rx_vars, pub_vars>>)

(***************************************************************************)
(* Claims about lora_send (SpecTx)                                         *)
(***************************************************************************)
\* C3: between calls, and when a call returns, tx_count equals the number
\* of calls that returned true; a call that returns false leaves it as it
\* was.
C3_TxCountCountsSuccesses ==
  tx_pc \in {"idle", "ret"} => tx_count = call.ok_count

\* the two commands lora_send issued last
LastCmdsClear == cmds = <<"clear_errors", "clear_irq_status">>

\* lora_send returns in this step
Returns == tx_pc # "ret" /\ tx_pc' = "ret"

\* what C4 says of the state in which a call returns
TimedOutReturn ==
  /\ tx_result = FALSE
  /\ Ge32(Sub32(now, start), TIMEOUT_MS)
  /\ LastCmdsClear
  /\ ~radio.irq_tx_done

\* C4: a call that issued transmit-start, and after it saw neither the
\* completion interrupt nor the TX_DONE status bit, returns false, not
\* before 2000 ms have passed since the wait began, and its last two radio
\* commands are clear-errors and clear-all-IRQ.
C4_TimeoutReturnsFalse ==
  [][(Returns /\ call'.started /\ ~call'.after_start)
       => TimedOutReturn']_vars

\* C4, for the calls during which no completion was signalled at all, the
\* time before transmit-start included
C4_NoSignalInCall ==
  [][(Returns /\ call'.started /\ ~call'.signalled)
       => TimedOutReturn']_vars

\* a call without any completion signal returned, on either side of the
\* clock's wrap
C4_NoSignalInCallSeen ==
  /\ tx_pc = "ret" /\ call.started /\ ~call.signalled
  /\ now.hi = 0 /\ start.hi = 65535

\* C5: a call with a length above the payload length returns false at
\* once: no radio command is issued, and tx_count, the completion flag and
\* the radio are as they were.
C5_TooLongRejected ==
  [][(tx_pc = "idle" /\ tx_pc' # "idle" /\ tx_len' > PAYLOAD_LENGTH)
       => /\ tx_pc' = "ret"
          /\ tx_result' = FALSE
          /\ ~call'.cmd_any
          /\ cmds' = cmds
          /\ radio' = radio
          /\ tx_count' = tx_count
          /\ tx_done_flag' = tx_done_flag]_vars

\* C5 witness: after a call that transmitted, a call with a length above
\* the payload length has returned false, with no command issued.
C5_Witness ==
  /\ tx_pc = "ret"
  /\ tx_len > PAYLOAD_LENGTH
  /\ ~tx_result
  /\ ~call.cmd_any
  /\ call.ok_count = 1
  /\ tx_done_flag

(***************************************************************************)
(* Claims about core 0 alone (SpecGps)                                     *)
(***************************************************************************)
Display(d) == <<d.display_latitude, d.display_longitude>>

\* C6: once a first valid fix has been filtered, and as long as every later
\* filtered fix is below 3 km/h, display_latitude and display_longitude
\* equal the position of that first fix, whatever that position is.
C6_AntiDriftLatch ==
  (first_fix.set /\ slow_since)
    => Display(gps_data) = <<first_fix.lat, first_fix.lon>>

\* C7: a step in which the filter runs with fix_valid true and hdop above
\* 3.0 changes none of display_latitude, display_longitude, is_moving,
\* whatever the speed and whether or not the display position is still 0.0.
C7_AccuracyGate ==
  [][(last_in'.decoded = "rmc" /\ gps_data'.fix_valid
      /\ gps_data'.hdop > MAX_HDOP_THRESHOLD)
     => (Display(gps_data') = Display(gps_data)
         /\ gps_data'.is_moving = gps_data.is_moving)]_vars

\* C7 witness: the filter has just run on a valid fix with hdop above 3.0
\* at 3 km/h or more, with the display position still unset.
C7_Witness ==
  /\ last_in.decoded = "rmc"
  /\ gps_data.fix_valid
  /\ gps_data.hdop > MAX_HDOP_THRESHOLD
  /\ gps_data.speed_kph >= MIN_SPEED_THRESHOLD
  /\ gps_data.raw_latitude # 0
  /\ Display(gps_data) = <<0, 0>>

C10_MalformedLineDropped ==
  [][last_in'.form # "ok"
     => (last_in'.decoded = "none" /\ gps_data' = gps_data
         /\ total_readings' = total_readings)]_vars

(***************************************************************************)
(* Claims about the two cores (SpecSync)                                   *)
(***************************************************************************)
\* gps_get_data_safe has filled `gps` and nothing has been copied over it
SnapshotComplete ==
  snap_ref.taken /\ (pc1 = 0 \/ pc1 = Len(gps_fields) + 1)

Five(d) ==
  <<d.raw_latitude, d.raw_longitude, d.altitude, d.satellites, d.fix_valid>>

\* C1: the raw_latitude, raw_longitude, altitude, satellites and fix_valid
\* of every snapshot are those one quality decode pass left behind: the
\* last pass that had committed when the copy began.
C1_SnapshotFromOneDecode ==
  SnapshotComplete => Five(snap) = Five(snap_ref.commit)

\* C1 witness: a snapshot taken while core 0 was between the writes of a
\* later quality decode, waiting for the lock; the snapshot holds the
\* position of the pass before.
C1_Witness ==
  /\ pc1 = Len(gps_fields) + 1
  /\ ops0 # <<>> /\ Head(ops0).op = "lock"
  /\ last_in.decoded = "gga"
  /\ snap.fix_valid
  /\ snap.raw_latitude # 0

\* C2: every step that changes gps_data is taken by core 0 holding
\* gps_spin_lock (hdop included).
C2_DecoderWritesUnderGuard ==
  [][gps_data' # gps_data => lock = "core0"]_vars

\* C2, as seen from core 1: the hdop of a snapshot is the hdop of the
\* quality decode pass that the rest of the snapshot comes from.
C2_SnapshotHdopCommitted ==
  SnapshotComplete => snap.hdop = snap_ref.commit.hdop

\* C9: outside the commit of a quality decode, and in every snapshot,
\* fix_valid is true only if the quality sentence decoded last had a
\* non-empty latitude field and a satellite count above 0; and then
\* satellites > 0.
C9_FixValidNeedsLatAndSats ==
  /\ (~(lock = "core0" /\ last_in.decoded = "gga") /\ gps_data.fix_valid)
       => (gga_seen.any /\ gga_seen.has_lat /\ gga_seen.sats > 0
           /\ gps_data.satellites > 0)
  /\ (SnapshotComplete /\ snap.fix_valid)
       => (snap_ref.seen.any /\ snap_ref.seen.has_lat
           /\ snap_ref.seen.sats > 0 /\ snap.satellites > 0)

\* C9 witness: a fix was valid, then a quality sentence with a latitude
\* but 0 satellites was decoded, and a snapshot taken after it shows
\* fix_valid false.
C9_Witness ==
  /\ SnapshotComplete
  /\ snap_ref.seen.has_lat /\ snap_ref.seen.sats = 0
  /\ ~snap.fix_valid
  /\ snap.raw_latitude # 0


(***************************************************************************)
(* Core 1: the loop of core1_main, which builds the packed 24-byte packet  *)
(* from a snapshot and hands it to lora_send                               *)
(***************************************************************************)
Only(S) == CHOOSE x \in S : TRUE

\* the least integer n with n / den >= 2^e
Lo(den, e) == IF e >= 0 THEN den * (2 ^ e) ELSE (den + (2 ^ (-e)) - 1) \div (2 ^ (-e))

\* the binary exponent of a / den, for 0 < a / den < 2048
FloatExp(a, den) == CHOOSE e \in -20..10 : Lo(den, e) <= a /\ a < Lo(den, e + 1)

\* one more quotient bit of a binary long division by D
DivStep(p, D) ==
  IF 2 * p.r >= D THEN [q |-> (2 * p.q) + 1, r |-> (2 * p.r) - D]
  ELSE [q |-> 2 * p.q, r |-> 2 * p.r]

\* n quotient bits of r / D and the remainder, for r < D
RECURSIVE Frac(_, _, _)
Frac(r, D, n) ==
  IF n = 0 THEN [q |-> 0, r |-> r]
  ELSE Only({DivStep(p, D) : p \in {Frac(r, D, n - 1)}})

\* round to nearest, ties to even: p holds the 23 fraction bits and the
\* remainder of the division by D
f32_round(p, D, e) ==
  LET up == (2 * p.r > D) \/ (2 * p.r = D /\ p.q % 2 = 1)
      m == p.q + (IF up THEN 1 ELSE 0)
  IN IF m = 2 ^ 23 THEN [e |-> e + 1, m |-> 0] ELSE [e |-> e, m |-> m]

\* sign, biased exponent and fraction as four bytes, least significant first
f32_bits(sign, x) ==
  <<x.m % 256, (x.m \div 256) % 256,
    (((x.e + 127) % 2) * 128) + (x.m \div 65536),
    (sign * 128) + ((x.e + 127) \div 2)>>

\* the bytes in memory of the float nearest to num / den (IEEE 754 binary32
\* on the little-endian RP2040), for |num / den| < 2048
f32(num, den) ==
  IF num = 0 THEN <<0, 0, 0, 0>>
  ELSE Only({
         Only({f32_bits(IF num < 0 THEN 1 ELSE 0, f32_round(p, ad[2], e)) :
               p \in {Frac(ad[1] - ad[2], ad[2], 23)}}) :
         e \in {FloatExp(IF num < 0 THEN -num ELSE num, den)},
         ad \in {IF FloatExp(IF num < 0 THEN -num ELSE num, den) >= 0
                 THEN <<IF num < 0 THEN -num ELSE num,
                        den * (2 ^ FloatExp(IF num < 0 THEN -num ELSE num, den))>>
                 ELSE <<(IF num < 0 THEN -num ELSE num)
                          * (2 ^ (-FloatExp(IF num < 0 THEN -num ELSE num, den))),
                        den>>}})

\* a conversion to 16 bits that saturates instead of wrapping
u16_saturating(x) == IF x > 65535 THEN 65535 ELSE x

\* the conversions of core1_main, lines 56-57
u16(x) == x % 65536
u8(x) == x % 256
\* the bytes in memory of a uint32_t and of a uint16_t
le32(v) == <<v % 256, (v \div 256) % 256, (v \div 65536) % 256, v \div 16777216>>
le16(v) == <<v % 256, v \div 256>>

\* a layout with the two last members in the other order
encode_fix_before_sats(gps, count) ==
  le32(MAGIC)
  \o f32(gps.raw_latitude, 1000000)
  \o f32(gps.raw_longitude, 1000000)
  \o f32(gps.speed_kph, 1000)
  \o f32(gps.altitude, 1000)
  \o le16(u16(count))
  \o <<IF gps.fix_valid THEN 1 ELSE 0>>
  \o <<u8(gps.satellites)>>

\* the packet with the filtered display position in place of the raw one
encode_display_position(gps, count) ==
  le32(MAGIC)
  \o f32(gps.display_latitude, 1000000)
  \o f32(gps.display_longitude, 1000000)
  \o f32(gps.speed_kph, 1000)
  \o f32(gps.altitude, 1000)
  \o le16(u16(count))
  \o <<u8(gps.satellites)>>
  \o <<IF gps.fix_valid THEN 1 ELSE 0>>

\* core1_main, lines 50-58, with the packed struct of lines 23-32: the bytes
\* of `packet` built from the snapshot gps when lora_get_tx_count() = count
encode(gps, count) ==
  le32(MAGIC)
  \o f32(gps.raw_latitude, 1000000)
  \o f32(gps.raw_longitude, 1000000)
  \o f32(gps.speed_kph, 1000)
  \o f32(gps.altitude, 1000)
  \o le16(u16(count))
  \o <<u8(gps.satellites)>>
  \o <<IF gps.fix_valid THEN 1 ELSE 0>>

\* the values of tx_count at which the loop is observed: at start, at the
\* seventh packet, and where the 16-bit field wraps
TxCounts == {0, 7, 65535}

\* the lines core 0 decodes while core 1 publishes
PubLines == {GgaA, RmcFast}

\* core1_main, lines 50-58
PubBuild ==
  /\ pub_pc = "build"
  /\ packet' = encode(snap, tx_count)
  /\ pub_pc' = "send"
  /\ UNCHANGED <<gps_vars, sync_vars, tx_vars, rx_vars, pub>>

\* core1_main, line 61: the whole call lora_send(&packet, sizeof(packet)),
\* which rejects a packet that is too long, counts every other one at its
\* start, and returns true or false
PubSend ==
  /\ pub_pc = "send"
  /\ pub.cycles < MaxCycles
  /\ tx_len' = Len(packet)
  /\ IF too_long(Len(packet))
     THEN tx_count' = tx_count /\ tx_result' = FALSE
     ELSE tx_count' = tx_count + 1 /\ tx_result' \in BOOLEAN
  /\ pub_pc' = "print"
  /\ pub' = [pub EXCEPT !.cycles = @ + 1]
  /\ UNCHANGED <<gps_vars, sync_vars, rx_vars, packet, tx_pc, tx_done_flag,
                 now, start, radio, cmds, call>>

\* core1_main, lines 62-67: safe_printf of the result
PubPrint ==
  /\ pub_pc = "print"
  /\ pub_pc' = "sleep"
  /\ UNCHANGED <<gps_vars, sync_vars, tx_vars, rx_vars, packet, pub>>

\* core1_main, line 69: sleep_ms(1000)
PubSleep ==
  /\ pub_pc = "sleep"
  /\ pub_pc' = "snap"
  /\ UNCHANGED <<gps_vars, sync_vars, tx_vars, rx_vars, packet, pub>>

NextPub ==
  \/ (\E e \in PubLines : Core0Line(e)) /\ UNCHANGED pub_vars
  \/ Core0Write /\ UNCHANGED pub_vars
  \/ Core0Lock /\ UNCHANGED pub_vars
  \/ Core0Unlock /\ UNCHANGED pub_vars
  \/ Core0Other /\ UNCHANGED pub_vars
  \/ pub_pc = "snap" /\ Core1Lock /\ UNCHANGED pub_vars
  \/ Core1Copy /\ UNCHANGED pub_vars
  \/ Core1Unlock /\ pub_pc' = "build" /\ UNCHANGED <<packet, pub>>
  \/ PubBuild
  \/ PubSend
  \/ PubPrint
  \/ PubSleep

\* the loop observed from the counter values of TxCounts on
InitAt ==
  /\ InitGps /\ InitSync /\ InitRadio /\ InitRx /\ InitPub
  /\ tx_count \in TxCounts

SpecPub == InitAt /\ [][NextPub]_vars

\* the lines core 0 decodes while the transmitted position is observed: two
\* fixes at different places, the second also with an HDOP above the
\* threshold, a quality sentence without fix, and a velocity sentence below
\* the speed threshold, which runs the filter
PosLines == {GgaA, GgaB, GgaBadHdop, GgaNoFix, RmcSlow}

\* the number of lines core 0 is given
MaxLines == 3

\* process_gps_data finds the line e; pub.lines counts the lines
PosLine(e) ==
  /\ pub.lines < MaxLines
  /\ Core0Line(e)
  /\ pub' = [pub EXCEPT !.lines = @ + 1]
  /\ UNCHANGED <<pub_pc, packet>>

NextPos ==
  \/ \E e \in PosLines : PosLine(e)
  \/ Core0Write /\ UNCHANGED pub_vars
  \/ Core0Lock /\ UNCHANGED pub_vars
  \/ Core0Unlock /\ UNCHANGED pub_vars
  \/ Core0Other /\ UNCHANGED pub_vars
  \/ pub_pc = "snap" /\ Core1Lock /\ UNCHANGED pub_vars
  \/ Core1Copy /\ UNCHANGED pub_vars
  \/ Core1Unlock /\ pub_pc' = "build" /\ UNCHANGED <<packet, pub>>
  \/ PubBuild
  \/ PubSend
  \/ PubPrint
  \/ PubSleep

SpecPos == Init /\ [][NextPos]_vars

(***************************************************************************)
(* Line reassembly                                                         *)
(***************************************************************************)
\* gps_process is called with the bytes b while the buffer holds exactly
\* the checksum-valid sentence of the catalog entry e
Terminates(e, b) ==
  /\ nmea_buffer = e.text
  /\ rx'.n = rx.n + 1
  /\ rx'.burst = b

\* C11: a buffered checksum-valid sentence is decoded when its terminator,
\* '\r' or '\n', is processed: a sentence terminated only by '\r' does not
\* wait for a later '\n'
C11_TerminatorDecodes ==
  [][\A b \in {<<13>>, <<10>>} :
       Terminates(GgaA, b) => gps_data' = Exec(gps_data, Decoded[GgaA.text].ops)]_vars

\* the same for '\n' alone (holds)
C11_NewlineDecodes ==
  [][Terminates(GgaA, <<10>>)
       => /\ gps_data' = Exec(gps_data, Decoded[GgaA.text].ops)
          /\ nmea_buffer' = <<>>]_vars

\* a '\r' arrives behind the buffered sentence and the fix state stays as
\* it was before the sentence
C11_Witness ==
  /\ rx.burst = <<13>>
  /\ nmea_buffer = GgaA.text \o <<13>>
  /\ gps_data = gps_data_init

\* gps_process is called with the bytes b when the byte received last was
\* the first terminator after a buffer overflow
AfterResync(b) ==
  /\ rx.phase = "resynced"
  /\ rx'.n = rx.n + 1
  /\ rx'.burst = b

\* C12: the stream heals after a buffer overflow: once the next terminator
\* has been received, a following complete checksum-valid sentence that
\* fits the buffer is decoded
C12_DecodedAfterOverflow ==
  [][AfterResync(GgaB.text \o <<10>>)
       => gps_data' = Exec(gps_data, Decoded[GgaB.text].ops)]_vars

\* the same when that terminator was a '\n' (holds)
C12_DecodedAfterNewline ==
  [][(AfterResync(GgaB.text \o <<10>>) /\ rx.burst[Len(rx.burst)] = 10)
       => (nmea_buffer = <<>>
           /\ gps_data' = Exec(gps_data, Decoded[GgaB.text].ops))]_vars

\* the terminator after the overflow was a '\r', the sentence and its '\n'
\* followed, and the fix state is still the initial one
C12_Witness ==
  /\ rx.n = 4
  /\ rx.burst = GgaB.text \o <<10>>
  /\ rx.phase = "resynced"
  /\ gps_data = gps_data_init

(***************************************************************************)
(* What the two decoders write                                             *)
(***************************************************************************)
\* C13: after a checksum-valid velocity sentence was decoded, speed_kph and
\* course are both 0 unless its status is 'A' (void, or the field empty or
\* missing); with status 'A' speed_kph is the knots of the sentence times
\* 1.852
C13_VelocityNeedsActiveStatus ==
  (last_in.decoded = "rmc" /\ last_in.form = "ok")
    => IF last_in.status = 65
       THEN gps_data.speed_kph = TruncDiv(last_in.knots * 1852, 1000)
       ELSE gps_data.speed_kph = 0 /\ gps_data.course = 0

\* a void velocity sentence was decoded behind a fix that had been filtered
C13_Witness ==
  /\ last_in.decoded = "rmc"
  /\ last_in.form = "ok"
  /\ last_in.status = 86
  /\ last_in.knots > 0
  /\ first_fix.set
  /\ gps_data.speed_kph = 0

\* the members a quality sentence never writes
GgaFrame == <<"speed_kph", "course", "display_latitude", "display_longitude",
              "is_moving">>

\* C14: decoding a checksum-valid quality sentence always writes satellites;
\* with the latitude empty or satellites <= 0 it clears fix_valid and leaves
\* raw_latitude, raw_longitude and altitude as they were; in all cases
\* speed_kph, course, the display position, is_moving and the reading
\* counter stay as they were
C14_QualityDecodeFrame ==
  [][(last_in'.decoded = "gga" /\ last_in'.form = "ok")
       => /\ gps_data'.satellites = last_in'.sats
          /\ (~last_in'.has_lat \/ last_in'.sats <= 0)
               => /\ ~gps_data'.fix_valid
                  /\ gps_data'.raw_latitude = gps_data.raw_latitude
                  /\ gps_data'.raw_longitude = gps_data.raw_longitude
                  /\ gps_data'.altitude = gps_data.altitude
          /\ \A i \in 1..Len(GgaFrame) :
               gps_data'[GgaFrame[i]] = gps_data[GgaFrame[i]]
          /\ total_readings' = total_readings]_vars

\* a quality sentence with a latitude and no satellites was decoded in a
\* moving fix state, which keeps its position and speed
C14_Witness ==
  /\ last_in.decoded = "gga"
  /\ last_in.form = "ok"
  /\ last_in.has_lat
  /\ last_in.sats = 0
  /\ gps_data.satellites = 0
  /\ ~gps_data.fix_valid
  /\ gps_data.raw_latitude # 0
  /\ gps_data.is_moving
  /\ gps_data.speed_kph > 0

(***************************************************************************)
(* The telemetry packet                                                    *)
(***************************************************************************)
\* core 1 is past the build of this cycle's packet
Built == pub_pc \in {"send", "print", "sleep"}

\* the binary32 bytes, least significant first, of the values the decoded
\* sentences give: 48.1173, 11.516666, 41.484, 545.4, and 0
RefFloat(v) ==
  CASE v = 48117300 -> <<29, 120, 64, 66>>
    [] v = 11516666 -> <<68, 68, 56, 65>>
    [] v = 41484 -> <<158, 239, 37, 66>>
    [] v = 545400 -> <<154, 89, 8, 68>>
    [] v = 0 -> <<0, 0, 0, 0>>

\* C15: the packet is exactly 24 bytes without padding: magic 0x46533236 at
\* offset 0, latitude at 4, longitude at 8, speed_kph at 12, altitude at 16,
\* the 16-bit tx_count at 20, the 8-bit satellites at 22 and fix_valid at
\* 23, which is serialized as 1 or 0 only
C15_PacketLayout ==
  Built =>
    /\ Len(packet) = 24
    /\ SubSeq(packet, 1, 4) = <<54, 50, 83, 70>>
    /\ SubSeq(packet, 5, 8) = RefFloat(snap.raw_latitude)
    /\ SubSeq(packet, 9, 12) = RefFloat(snap.raw_longitude)
    /\ SubSeq(packet, 13, 16) = RefFloat(snap.speed_kph)
    /\ SubSeq(packet, 17, 20) = RefFloat(snap.altitude)
    /\ packet[21] + (256 * packet[22]) < 65536
    /\ packet[23] = snap.satellites
    /\ packet[24] = (IF snap.fix_valid THEN 1 ELSE 0)
    /\ \A i \in 1..24 : packet[i] \in 0..255

\* the packet of a moving fix with 8 satellites when the counter is 7
C15_Witness ==
  /\ pub_pc = "send"
  /\ packet = <<54, 50, 83, 70, 29, 120, 64, 66, 68, 68, 56, 65,
                158, 239, 37, 66, 154, 89, 8, 68, 7, 0, 8, 1>>

\* the 16-bit field at offset 20 of the packet
PacketTxCount == packet[21] + (256 * packet[22])

\* C16: the packet's tx_count field is the counter as it was before this
\* cycle's send attempt, modulo 2^16; the increment lora_send makes during
\* the cycle does not reach it
C16_TxCountBeforeSend ==
  /\ pub_pc = "send" => PacketTxCount = tx_count % 65536
  /\ pub_pc \in {"print", "sleep"} => PacketTxCount = (tx_count - 1) % 65536

\* the counter passed 2^16: the packet sent as number 65536 carries 0
C16_Witness ==
  /\ pub_pc = "print"
  /\ tx_count = 65537
  /\ PacketTxCount = 0

ReturnsTrueCleared ==
  /\ tx_result'
  /\ cmds'[2] = "clear_irq_status"
  /\ ~radio'.irq_tx_done

\* C18: the completion wait accepts either source: when the TX_DONE bit
\* becomes set after transmit-start and before the timeout and the
\* interrupt callback never runs, lora_send returns true; when the callback
\* sets tx_done_flag in that time and the bit is never observed set, it
\* returns true as well; both times the IRQ flags are cleared before it
\* returns
C18_EitherCompletionSource ==
  [][Returns =>
       /\ (call'.done_in_time /\ ~call'.isr) => ReturnsTrueCleared
       /\ (call'.isr_in_time /\ ~call'.seen_bit) => ReturnsTrueCleared]_vars

\* a call returned true on the polled bit alone
C18_Witness ==
  /\ tx_pc = "ret"
  /\ tx_result
  /\ call.done_in_time
  /\ call.seen_bit
  /\ ~call.isr

\* a call returned true on the callback's flag alone
C18_WitnessIsr ==
  /\ tx_pc = "ret"
  /\ tx_result
  /\ call.isr_in_time
  /\ ~call.seen_bit

(***************************************************************************)
(* The guard of the fix state                                              *)
(***************************************************************************)
\* C19: the guard is held only for the member commit or the struct copy:
\* core 1 holds it only inside the snapshot copy, never while it encodes,
\* sends, prints or sleeps, and the step a core takes next while it holds
\* the guard is a member write, a member copy or the release, never a
\* console print, a send, a sleep or another acquisition
C19_GuardOnlyForCommitOrCopy ==
  /\ lock = "core1" => (pub_pc = "snap" /\ pc1 \in 1..(Len(gps_fields) + 1))
  /\ pub_pc # "snap" => (pc1 = 0 /\ lock # "core1")
  /\ lock = "core0" => (ops0 # <<>> /\ Head(ops0).op \in {"write", "unlock"})

\* core 0 holds the guard in the filter's commit, with its console print
\* still ahead, while core 1 is at its own console print
C19_Witness ==
  /\ lock = "core0"
  /\ pub_pc = "print"
  /\ Len(ops0) >= 2
  /\ ops0[Len(ops0)].op = "print"
  /\ ops0[Len(ops0) - 1].op = "unlock"

(***************************************************************************)
(* Termination of lora_send                                                *)
(***************************************************************************)
\* C20: every call of lora_send returns: with the clock advancing the wait
\* ends on a completion or on the timeout of 2000 ms; within one call the
\* transmit-start command is issued at most once
C20_SendReturns ==
  /\ [](call.set_tx <= 1)
  /\ (InCall ~> tx_pc = "ret")

\* a call that waited until the timeout has returned, with one
\* transmit-start
C20_Witness ==
  /\ tx_pc = "ret"
  /\ ~tx_result
  /\ call.started
  /\ call.set_tx = 1
  /\ timed_out(now, start)

(***************************************************************************)
(* Lines are decoded once each, in arrival order                           *)
(***************************************************************************)
\* the byte received last ended a line, or no byte was received yet
AtLineStart == rx.n = 0 \/ IsTerminator(rx.burst[Len(rx.burst)])

\* the sentences of a read that holds complete lines only, in arrival order
Sentences(b) ==
  IF b = GgaB.text \o <<10>> THEN <<GgaB.text>>
  ELSE IF b = RmcFast.text \o <<13, 10>> THEN <<RmcFast.text>>
  ELSE IF b = TwoLines THEN <<GgaA.text, RmcSlow.text>>
  ELSE <<>>

\* the lines the buffer holds that gps_process has not handed on yet
Pending == Cardinality({i \in 1..Len(nmea_buffer) : IsTerminator(nmea_buffer[i])})

\* gps_process handed the sentences ss to their decoders, last and in this
\* order, after at most the lines that were pending
HandedInOrder(ss) ==
  LET h == rx'.handed
  IN /\ Len(h) >= Len(ss)
     /\ Len(h) <= Len(ss) + Pending
     /\ SubSeq(h, Len(h) - Len(ss) + 1, Len(h)) = ss

\* gps_process read the complete lines b, which began at a line start
ReadLines(b) ==
  /\ AtLineStart
  /\ rx'.n = rx.n + 1
  /\ rx'.burst = b
  /\ Sentences(b) # <<>>

\* C21: every checksum-valid sentence of a matched family that fits the
\* buffer and is ended by '\n' is handed to its decoder exactly once, in
\* arrival order, also when several lines are read at once; empty lines
\* decode nothing
C21_EachSentenceDecodedOnce ==
  [][\A b \in Bursts : ReadLines(b) => HandedInOrder(Sentences(b))]_vars

\* the same for reads whose first line fits behind what the buffer holds
\* (holds)
C21_DecodedOnceWhenRoom ==
  [][\A b \in Bursts :
       (ReadLines(b) /\ Len(nmea_buffer) + FirstNewline(b) <= NMEA_BUFFER_SIZE - 1)
         => HandedInOrder(Sentences(b))]_vars

\* a lone '\n' or '\r' at a line start is an empty line: nothing is decoded
\* (holds)
C21_EmptyLineDecodesNothing ==
  [][(AtLineStart /\ rx'.n = rx.n + 1 /\ rx'.burst \in {<<10>>, <<13>>}
      /\ Pending = 0)
       => (rx'.handed = <<>> /\ gps_data' = gps_data)]_vars

\* a sentence ended by '\n' was read at a line start, behind 205 buffered
\* bytes that end in '\r', and no line was handed to a decoder
C21_Witness ==
  /\ rx.n = 4
  /\ rx.burst = GgaB.text \o <<10>>
  /\ rx.phase = "resynced"
  /\ rx.handed = <<>>

\* two sentences read at once were handed on in arrival order, the empty
\* line between them decoding nothing
C21_WitnessTwoLines ==
  /\ rx.burst = TwoLines
  /\ rx.handed = <<GgaA.text, RmcSlow.text>>

(***************************************************************************)
(* A return of true and the transmission it reports                        *)
(***************************************************************************)
\* C22: lora_send returns true only if the completion it accepted, the
\* interrupt or the TX_DONE status bit, was raised after this call issued
\* transmit-start; a completion of an earlier, timed-out transmission that
\* fires between the reset of tx_done_flag and transmit-start does not make
\* the call report success
C22_TrueOnlyForOwnCompletion ==
  [][(Returns /\ tx_result' /\ call'.started) => call'.after_start]_vars

\* true is returned only by a call that issued transmit-start and during
\* which a completion was signalled, before transmit-start or after it
\* (holds)
C22_TrueNeedsCompletion ==
  [][(Returns /\ tx_result') => (call'.started /\ call'.signalled)]_vars

\* a call returned true whose only completion signal was the interrupt of
\* an earlier transmission, run before this call's transmit-start
C22_Witness ==
  /\ tx_pc = "ret"
  /\ tx_result
  /\ call.started
  /\ call.isr
  /\ ~call.seen_bit
  /\ ~call.after_start

(***************************************************************************)
(* The position that is transmitted                                        *)
(***************************************************************************)
\* the line l is a quality sentence with a fix; gps.c, line 80
ValidFix(l) == l.decoded = "gga" /\ l.has_lat /\ l.sats > 0

\* the position, in millionths of a degree, of the quality sentences with a
\* fix among PosLines: 4807.038,N 01131.000,E with 8 satellites,
\* 4807.100,N 01131.500,E with 5
FixOf(l) ==
  IF l.sats = 8 THEN [lat |-> 48117300, lon |-> 11516666]
  ELSE [lat |-> 48118333, lon |-> 11525000]

\* the raw position of the fix state d is the one of d2
SameRaw(d, d2) ==
  /\ d.raw_latitude = d2.raw_latitude
  /\ d.raw_longitude = d2.raw_longitude

\* C23: the latitude and longitude of each packet are the snapshot's
\* raw_latitude and raw_longitude, not the filtered display position: the
\* raw position is the one of the last quality sentence with a fix, whatever
\* the filter does, a quality sentence without fix leaves it and clears
\* fix_valid, the snapshot takes it as it is, and the packet is built from
\* it, with fix_valid as 1 or 0, and stays as built until the next cycle
C23_RawPositionTransmitted ==
  [][/\ (~Built /\ Built') =>
          /\ SubSeq(packet', 5, 8) = f32(snap'.raw_latitude, 1000000)
          /\ SubSeq(packet', 9, 12) = f32(snap'.raw_longitude, 1000000)
          /\ packet'[24] = (IF snap'.fix_valid THEN 1 ELSE 0)
     /\ (Built /\ Built') => (packet' = packet /\ snap' = snap)
     /\ pc1' = Len(gps_fields) + 1 =>
          /\ SameRaw(snap', gps_data')
          /\ snap'.fix_valid = gps_data'.fix_valid
     /\ (ops0 # <<>> /\ ops0' = <<>> /\ ValidFix(last_in)) =>
          /\ gps_data'.raw_latitude = FixOf(last_in).lat
          /\ gps_data'.raw_longitude = FixOf(last_in).lon
          /\ gps_data'.fix_valid
     /\ (ops0 # <<>> /\ ~ValidFix(last_in)) =>
          /\ SameRaw(gps_data', gps_data)
          /\ (ops0' = <<>> /\ last_in.decoded = "gga") => ~gps_data'.fix_valid
    ]_vars

\* a packet built while the anti-drift latch holds the display position at
\* the first fix and the raw position is at the second
C23_Witness ==
  /\ Built
  /\ snap.fix_valid /\ ~snap.is_moving
  /\ snap.display_latitude = 48117300
  /\ snap.raw_latitude = 48118333
  /\ SubSeq(packet, 5, 12) = <<44, 121, 64, 66, 102, 102, 56, 65>>

\* a packet built after the HDOP gate rejected the only fix: no display
\* position yet
C23_WitnessGate ==
  /\ Built
  /\ snap.fix_valid /\ snap.hdop > MAX_HDOP_THRESHOLD
  /\ total_readings = 1
  /\ snap.display_latitude = 0
  /\ SubSeq(packet, 5, 12) = <<44, 121, 64, 66, 102, 102, 56, 65>>

\* a packet built after the fix was lost: the last valid raw position
C23_WitnessNoFix ==
  /\ Built
  /\ ~snap.fix_valid
  /\ SubSeq(packet, 5, 12) = <<29, 120, 64, 66, 68, 68, 56, 65>>
  /\ packet[24] = 0

(***************************************************************************)
(* The line buffer                                                         *)
(***************************************************************************)
\* C24: buffer_index stays within 0 .. NMEA_BUFFER_SIZE - 1 for every byte
\* sequence and every split into calls of gps_process, and right after a
\* '\n' was handled buffer_index is 0: the buffer holds no terminator that
\* was not processed
C24_BufferIndexInRange ==
  /\ Len(nmea_buffer) <= NMEA_BUFFER_SIZE - 1
  /\ \A i \in 1..Len(nmea_buffer) : nmea_buffer[i] # 10
  /\ (rx.n > 0 /\ rx.burst[Len(rx.burst)] = 10) => nmea_buffer = <<>>

\* the buffer is full: buffer_index is NMEA_BUFFER_SIZE - 1
C24_WitnessFull == Len(nmea_buffer) = NMEA_BUFFER_SIZE - 1

\* a '\n' was received with the buffer full: the byte is dropped with the
\* buffer's content and buffer_index is 0
C24_Witness ==
  /\ rx.burst = <<10>>
  /\ rx.phase = "overflowed"
  /\ nmea_buffer = <<>>

====
